---- MODULE Spec2Model ----
(***************************************************************************)
(* A state-machine model of matrix_hebrew.py: the falling-glyph drops with *)
(* their ageing trails, the word detection on retiring drops, the swirling *)
(* clusters and the frame loop of main() with its keyboard commands.       *)
(*                                                                         *)
(* Units.  A drop's vertical position y and its speed are kept in tenths   *)
(* of a row (speeds 0.4 .. 1.6 are 4 .. 16); a cluster letter's radius is  *)
(* kept in tenths and its angle in 1/10000 rad.  The pacing delay is kept  *)
(* as the exact IEEE-754 double the interpreter computes: a double d in    *)
(* [0, 0.25) that is a multiple of 2^-59 is the pair <<hi, lo>> with       *)
(* d = (hi * 2^28 + lo) * 2^-59, and FAdd / FSub round to 53 significant   *)
(* bits, ties to even, as the machine addition does.                       *)
(*                                                                         *)
(* MIN_LEN, MAX_LEN and TARGET_COUNT are the shipped values of the tunable *)
(* constants; the configuration in force is the state variable cfg.  Spec  *)
(* runs the session with the constants edited to the values of Tuned, that *)
(* let a five-glyph trail spell a word; SpecShipped runs it as shipped.    *)
(***************************************************************************)
EXTENDS Integers, Sequences, FiniteSets, TLC

VARIABLES
    pc,         \* "loop": at the top of the while loop; "end": end screen shown,
                \* blocked in the final getch; "exit": main returned;
                \* "crashed": an exception left main
    cfg,        \* [minLen, maxLen, target]: MIN_LEN, MAX_LEN, TARGET_COUNT in force
    WORD_LIST,  \* the dictionary after the length filter, in file order
    rows, cols, \* height-1 and width of the terminal
    paused,     \* the pause flag
    delay,      \* the pacing delay, a double
    drops,      \* the active drops, in list order
    clusters,   \* the active clusters, in list order
    found,      \* the found words, in order of detection
    log,        \* the words written to the log file, in order
    beeps,      \* number of curses.beep() calls so far
    retired,    \* the drops the latest tick retired, as their last update left them
    steps       \* the phases the latest loop iteration went through

vars == <<pc, cfg, WORD_LIST, rows, cols, paused, delay, drops, clusters,
          found, log, beeps, retired, steps>>

-----------------------------------------------------------------------------
(* Bounds of the model *)

\* the spawn of line 144 is taken only while fewer drops than this are active
MaxDrops == 1
\* the '-' command is taken only while the delay is below MaxDelayCenti * 0.01
MaxDelayCenti == 6
\* the same cap where the dispatch is run on its own
MaxSlowCenti == 16

-----------------------------------------------------------------------------
(* Configuration *)

MIN_LEN == 10
MAX_LEN == 13
TARGET_COUNT == 10
LIFESPAN == 40
SPEEDS == <<4, 8, 12, 16>>
ALPHABET == {"a", "b"}
NoMorph == "none"
layer_colors == << <<1,2,3,4,5>>, <<2,3,4,5,1>>, <<3,4,5,1,2>>, <<4,5,1,2,3>> >>

Shipped == [minLen |-> MIN_LEN, maxLen |-> MAX_LEN, target |-> TARGET_COUNT]
\* the constants edited so that words fit in a trail
Tuned == [minLen |-> 1, maxLen |-> 2, target |-> 2]

\* dictionary files: the lines, stripped
W_a == <<"a">>
W_ab == <<"a", "b">>
W_long == <<"a","b","a","b","a","b","a","b","a","b">>
DictFiles == { <<W_a, W_ab, W_a, W_long>> }

\* terminal sizes (height, width) reported by getmaxyx
Terminals == { [height |-> 2, width |-> 8] }

\* the values the random generator is sampled at
StartYs(max_row) == {-10 * max_row, 0}
Columns(ncols) == {ncols - 1}
Layers == 0..3
Gradients == {0, 1}
MorphDraws == ALPHABET \cup {NoMorph}

-----------------------------------------------------------------------------
(* Doubles *)

LimbBase == 2^28

\* the doubles of the literals 0.01 .. 0.05: 0x1.47ae147ae147bp-7,
\* 0x1.47ae147ae147bp-6, 0x1.eb851eb851eb8p-6, 0x1.47ae147ae147bp-5,
\* 0x1.999999999999ap-5
D001 == [hi |-> 21474836, lo |-> 128849019]
D002 == [hi |-> 42949672, lo |-> 257698038]
D003 == [hi |-> 64424509, lo |-> 118111600]
D004 == [hi |-> 85899345, lo |-> 246960620]
D005 == [hi |-> 107374182, lo |-> 107374184]
\* 0.019999999999999997 = 0x1.47ae147ae147ap-6, the double just below 0.02
D002m == [hi |-> 42949672, lo |-> 257698036]

FLess(a, b) == a.hi < b.hi \/ (a.hi = b.hi /\ a.lo < b.lo)

\* the exact sum and difference (a >= b) of two multiples of 2^-59
ExactAdd(a, b) ==
    LET l == a.lo + b.lo
    IN  [hi |-> a.hi + b.hi + (l \div LimbBase), lo |-> l % LimbBase]

ExactSub(a, b) ==
    LET l == a.lo - b.lo
    IN  IF l >= 0 THEN [hi |-> a.hi - b.hi, lo |-> l]
        ELSE [hi |-> a.hi - b.hi - 1, lo |-> l + LimbBase]

\* the number of bits by which n exceeds 53 significant bits
ExcessBits(n) ==
    IF n.hi < 2^25 THEN 0
    ELSE IF n.hi < 2^26 THEN 1
    ELSE IF n.hi < 2^27 THEN 2
    ELSE IF n.hi < 2^28 THEN 3
    ELSE 4

\* round to nearest, ties to even
RoundDouble(n) ==
    LET q == 2^ExcessBits(n)
        r == n.lo % q
        up == (2 * r > q) \/ (2 * r = q /\ (n.lo \div q) % 2 = 1)
        l == n.lo - r + (IF up THEN q ELSE 0)
    IN  IF l = LimbBase THEN [hi |-> n.hi + 1, lo |-> 0]
        ELSE [hi |-> n.hi, lo |-> l]

FAdd(a, b) == RoundDouble(ExactAdd(a, b))
\* a - b, for a >= b
FSub(a, b) == RoundDouble(ExactSub(a, b))
\* max(a, b) of Python: the first argument unless the second is greater
FMax(a, b) == IF FLess(a, b) THEN b ELSE a

\* k * 0.01 as an exact multiple of the double 0.01 (a threshold, not a double)
RECURSIVE Centi(_)
Centi(k) == IF k = 0 THEN [hi |-> 0, lo |-> 0] ELSE ExactAdd(Centi(k - 1), D001)

-----------------------------------------------------------------------------
(* Drop *)

\* int(): truncation toward zero of a position in tenths
IntOf(y) == IF y >= 0 THEN y \div 10 ELSE -((-y) \div 10)

\* the constructor with the start row drawn from twice the screen height
NewDrop_StartsHigher(x, layer, y0, ch, colors) ==
    [x |-> x, layer |-> layer, y |-> 2 * y0, speed |-> SPEEDS[layer + 1],
     char |-> ch, trail |-> <<>>, colors |-> colors, updates |-> 0]

\* Drop.__init__ with the random draws y0 and ch; updates counts the calls of
\* Drop.update on the drop (history, not a field of the object)
NewDrop(x, layer, y0, ch, colors) ==
    [x |-> x, layer |-> layer, y |-> y0, speed |-> SPEEDS[layer + 1],
     char |-> ch, trail |-> <<>>, colors |-> colors, updates |-> 0]

\* the ageing loop with the test age <= depth: one entry too many survives
RECURSIVE AgeAndPrune_KeepsOld(_, _)
AgeAndPrune_KeepsOld(trail, depth) ==
    IF trail = <<>> THEN <<>>
    ELSE LET t == Head(trail)
             rest == AgeAndPrune_KeepsOld(Tail(trail), depth)
         IN  IF t.age <= depth
             THEN <<[row |-> t.row, ch |-> t.ch, age |-> t.age + 1]>> \o rest
             ELSE rest

\* the ageing loop of lines 67-70
RECURSIVE AgeAndPrune(_, _)
AgeAndPrune(trail, depth) ==
    IF trail = <<>> THEN <<>>
    ELSE LET t == Head(trail)
             rest == AgeAndPrune(Tail(trail), depth)
         IN  IF t.age < depth
             THEN <<[row |-> t.row, ch |-> t.ch, age |-> t.age + 1]>> \o rest
             ELSE rest

\* the update with every drop falling at the speed of layer 0
DropUpdate_FixedStep(d, max_row, morph) ==
    LET y1 == d.y + SPEEDS[1]
        inserted == <<[row |-> IntOf(y1), ch |-> d.char, age |-> 0]>> \o d.trail
        d1 == [d EXCEPT !.y = y1,
                        !.trail = AgeAndPrune(inserted, Len(d.colors)),
                        !.char = IF morph = NoMorph THEN d.char ELSE morph,
                        !.updates = @ + 1]
    IN  [d |-> d1, alive |-> y1 < 10 * (max_row + Len(d.colors))]

\* Drop.update: morph is NoMorph or the glyph drawn by the morph
DropUpdate(d, max_row, morph) ==
    LET y1 == d.y + d.speed
        inserted == <<[row |-> IntOf(y1), ch |-> d.char, age |-> 0]>> \o d.trail
        d1 == [d EXCEPT !.y = y1,
                        !.trail = AgeAndPrune(inserted, Len(d.colors)),
                        !.char = IF morph = NoMorph THEN d.char ELSE morph,
                        !.updates = @ + 1]
    IN  [d |-> d1, alive |-> y1 < 10 * (max_row + Len(d.colors))]

\* the colour index Drop.draw uses for a trail entry
DropColorIdx(d, t) == IF t.age < Len(d.colors) - 1 THEN t.age ELSE Len(d.colors) - 1

-----------------------------------------------------------------------------
(* Cluster *)

\* the letter loop stopping one character short of the word
RECURSIVE ClusterLetters_DropsLast(_, _, _)
ClusterLetters_DropsLast(word, i, angle_step) ==
    IF i >= Len(word) - 1 THEN <<>>
    ELSE <<[ch |-> word[i + 1], angle |-> i * angle_step, rad |-> 0]>>
         \o ClusterLetters_DropsLast(word, i + 1, angle_step)

RECURSIVE ClusterLetters(_, _, _)
ClusterLetters(word, i, angle_step) ==
    IF i >= Len(word) THEN <<>>
    ELSE <<[ch |-> word[i + 1], angle |-> i * angle_step, rad |-> 0]>>
         \o ClusterLetters(word, i + 1, angle_step)

\* Cluster.__init__; 2*3.1415/len(word) in 1/10000 rad
NewCluster(word, center_x, center_y, lifespan, colors) ==
    [letters |-> ClusterLetters(word, 0, 62830 \div Len(word)),
     lifespan |-> lifespan, age |-> 0, colors |-> colors,
     cx |-> center_x, cy |-> center_y]

\* Cluster.update
ClusterUpdate(c) ==
    LET c1 == [c EXCEPT !.age = c.age + 1,
                        !.letters = [i \in 1..Len(c.letters) |->
                            [c.letters[i] EXCEPT !.rad = @ + 3, !.angle = @ + 1000]]]
    IN  [c |-> c1, alive |-> c1.age < c1.lifespan]

\* Cluster.draw: the first letter evaluates curses.cos, which the curses module
\* does not have, outside the try: the call raises AttributeError.  With no
\* letter the loop body never runs and the call returns None.
ClusterDrawRaises(c) == Len(c.letters) > 0
ClusterDrawReturn(c) == FALSE

\* the list comprehension of line 158: the clusters as the objects stand when it
\* ends or raises, and the list it builds
RECURSIVE ClusterPhase(_)
ClusterPhase(cs) ==
    IF cs = <<>> THEN [raised |-> FALSE, objects |-> <<>>, kept |-> <<>>]
    ELSE LET u == ClusterUpdate(Head(cs))
         IN  IF u.alive /\ ClusterDrawRaises(u.c)
             THEN [raised |-> TRUE, objects |-> <<u.c>> \o Tail(cs), kept |-> <<>>]
             ELSE LET r == ClusterPhase(Tail(cs))
                      keep == u.alive /\ ClusterDrawReturn(u.c)
                  IN  [raised |-> r.raised,
                       objects |-> <<u.c>> \o r.objects,
                       kept |-> IF keep THEN <<u.c>> \o r.kept ELSE r.kept]

-----------------------------------------------------------------------------
(* Word detection *)

\* ''.join([t[1] for t in d.trail])
Probe(d) == [i \in 1..Len(d.trail) |-> d.trail[i].ch]

\* w in s
Contains(w, s) ==
    \E i \in 0..(Len(s) - Len(w)) : SubSeq(s, i + 1, i + Len(w)) = w

InList(w, list) == \E i \in 1..Len(list) : list[i] = w

\* the word loop with a break after the first claimed word
RECURSIVE Detect_FirstOnly(_, _, _, _)
Detect_FirstOnly(words, i, probe, st) ==
    IF i > Len(words) THEN st
    ELSE LET w == words[i]
         IN  IF Contains(w, probe) /\ ~InList(w, st.found)
             THEN [st EXCEPT
                     !.found = Append(@, w),
                     !.log = Append(@, w),
                     !.clusters = Append(@,
                         NewCluster(w, cols \div 2, rows \div 2, LIFESPAN, layer_colors[1])),
                     !.beeps = @ + 1]
             ELSE Detect_FirstOnly(words, i + 1, probe, st)

\* the word loop without the test of line 152
RECURSIVE Detect_NoFoundCheck(_, _, _, _)
Detect_NoFoundCheck(words, i, probe, st) ==
    IF i > Len(words) THEN st
    ELSE LET w == words[i]
         IN  IF Contains(w, probe)
             THEN Detect_NoFoundCheck(words, i + 1, probe,
                         [st EXCEPT
                            !.found = Append(@, w),
                            !.log = Append(@, w),
                            !.clusters = Append(@,
                                NewCluster(w, cols \div 2, rows \div 2, LIFESPAN, layer_colors[1])),
                            !.beeps = @ + 1])
             ELSE Detect_NoFoundCheck(words, i + 1, probe, st)

\* the loop of lines 150-155 over the words from index i on; st carries found,
\* clusters, log and beeps (and the new_drops list, which it leaves alone)
RECURSIVE Detect(_, _, _, _)
Detect(words, i, probe, st) ==
    IF i > Len(words) THEN st
    ELSE LET w == words[i]
         IN  IF Contains(w, probe) /\ ~InList(w, st.found)
             THEN Detect(words, i + 1, probe,
                         [st EXCEPT
                            !.found = Append(@, w),
                            !.log = Append(@, w),
                            !.clusters = Append(@,
                                NewCluster(w, cols \div 2, rows \div 2, LIFESPAN, layer_colors[1])),
                            !.beeps = @ + 1])
             ELSE Detect(words, i + 1, probe, st)

\* the drop loop scanning every updated drop, alive or not
RECURSIVE DropPhase_ScansAll(_, _, _, _)
DropPhase_ScansAll(ds, i, morphs, st) ==
    IF i > Len(ds) THEN st
    ELSE LET u == DropUpdate(ds[i], rows, morphs[i])
         IN  IF u.alive
             THEN DropPhase_ScansAll(ds, i + 1, morphs,
                            Detect(WORD_LIST, 1, Probe(u.d),
                                   [st EXCEPT !.new_drops = Append(@, u.d)]))
             ELSE DropPhase_ScansAll(ds, i + 1, morphs,
                            Detect(WORD_LIST, 1, Probe(u.d),
                                   [st EXCEPT !.retired = Append(@, u.d)]))

\* the loop of lines 146-155 over the drops from index i on; morphs[i] is the
\* morph draw of drop i; st carries new_drops, retired, found, clusters, log, beeps
RECURSIVE DropPhase(_, _, _, _)
DropPhase(ds, i, morphs, st) ==
    IF i > Len(ds) THEN st
    ELSE LET u == DropUpdate(ds[i], rows, morphs[i])
         IN  IF u.alive
             THEN DropPhase(ds, i + 1, morphs, [st EXCEPT !.new_drops = Append(@, u.d)])
             ELSE DropPhase(ds, i + 1, morphs,
                            Detect(WORD_LIST, 1, Probe(u.d),
                                   [st EXCEPT !.retired = Append(@, u.d)]))

-----------------------------------------------------------------------------
(* The frame loop *)

NoKey == "-1"
Keys == {"p", "s", "v", "r", "+", "-", "q", "x"}
Inputs == Keys \cup {NoKey}

\* the dispatch with 'q' honoured only while not paused
Dispatch_QuitOnlyUnpaused(key, p, d) ==
    [paused |-> IF key = "p" THEN ~p ELSE p,
     delay |-> IF key = "+" THEN FMax(D001, FSub(d, D001))
               ELSE IF key = "-" THEN FAdd(d, D001)
               ELSE d,
     brk |-> key = "q" /\ ~p]

\* the dispatch with '+' lowering the delay without the floor
Dispatch_NoFloor(key, p, d) ==
    [paused |-> IF key = "p" THEN ~p ELSE p,
     delay |-> IF key = "+" THEN FSub(d, D001)
               ELSE IF key = "-" THEN FAdd(d, D001)
               ELSE d,
     brk |-> key = "q"]

\* the dispatch with '-' raising the delay up to a ceiling of 0.1
Dispatch_SlowCeiling(key, p, d) ==
    [paused |-> IF key = "p" THEN ~p ELSE p,
     delay |-> IF key = "+" THEN FMax(D001, FSub(d, D001))
               ELSE IF key = "-"
                    THEN IF FLess(FAdd(d, D001), [hi |-> 214748364, lo |-> 214748368])
                         THEN FAdd(d, D001)
                         ELSE [hi |-> 214748364, lo |-> 214748368]
               ELSE d,
     brk |-> key = "q"]

\* the command dispatch of lines 132-140 on the polled key: the pause flag and
\* the delay it leaves, and whether it breaks out of the loop
Dispatch(key, p, d) ==
    [paused |-> IF key = "p" THEN ~p ELSE p,
     delay |-> IF key = "+" THEN FMax(D001, FSub(d, D001))
               ELSE IF key = "-" THEN FAdd(d, D001)
               ELSE d,
     brk |-> key = "q"]

\* the polls the model follows
KeyAllowed(key) == key = "-" => FLess(delay, Centi(MaxDelayCenti))

\* stdscr.getch() as the latest iteration's first phase
PollStep(key) == IF key = "q" THEN "poll q" ELSE "poll"

\* the dictionary filter without the lower length bound
FilterLen_NoLowerBound(lines, lo, hi) == SelectSeq(lines, LAMBDA w : Len(w) <= hi)

\* the dictionary filter of line 47
FilterLen(lines, lo, hi) == SelectSeq(lines, LAMBDA w : lo <= Len(w) /\ Len(w) <= hi)

\* the drops Drop(random.randrange(cols), random.randrange(4), rows,
\* layer_colors[random.randrange(4)]) can build
RandomDrops ==
    { NewDrop(x, l, y0, ch, layer_colors[g + 1]) :
        x \in Columns(cols), l \in Layers, y0 \in StartYs(rows),
        ch \in ALPHABET, g \in Gradients }

\* the initial drops of line 127, one per eight columns
InitDropSets(n) == [1..n -> RandomDrops]

InitWith(configs) ==
    /\ cfg \in configs
    /\ \E file \in DictFiles : WORD_LIST = FilterLen(file, cfg.minLen, cfg.maxLen)
    /\ WORD_LIST # <<>>
    /\ \E t \in Terminals : rows = t.height - 1 /\ cols = t.width
    /\ pc = "loop"
    /\ paused = FALSE
    /\ delay = D005
    /\ drops \in InitDropSets(cols \div 8)
    /\ clusters = <<>>
    /\ found = <<>>
    /\ log = <<>>
    /\ beeps = 0
    /\ retired = <<>>
    /\ steps = <<>>

Init == InitWith({Tuned})

\* an iteration whose command breaks out of the loop: the end screen is drawn
\* and main blocks in the final getch
Quit ==
    /\ pc = "loop"
    /\ \E key \in Inputs :
        /\ KeyAllowed(key)
        /\ \E disp \in { Dispatch(key, paused, delay) } :
            /\ disp.brk
            /\ paused' = disp.paused
            /\ delay' = disp.delay
        /\ steps' = <<PollStep(key), "endscreen">>
    /\ pc' = "end"
    /\ UNCHANGED <<cfg, WORD_LIST, rows, cols, drops, clusters, found, log, beeps,
                   retired>>

\* a paused iteration that still advances the drops
PausedIteration_StillUpdates ==
    /\ pc = "loop"
    /\ \E key \in Inputs :
        /\ KeyAllowed(key)
        /\ \E disp \in { Dispatch(key, paused, delay) } :
            /\ ~disp.brk
            /\ disp.paused
            /\ paused' = disp.paused
            /\ delay' = disp.delay
        /\ steps' = <<PollStep(key)>>
    /\ drops' = [i \in 1..Len(drops) |-> DropUpdate(drops[i], rows, NoMorph).d]
    /\ UNCHANGED <<pc, cfg, WORD_LIST, rows, cols, clusters, found, log, beeps, retired>>

\* an iteration that finds the pause flag set after the dispatch
PausedIteration ==
    /\ pc = "loop"
    /\ \E key \in Inputs :
        /\ KeyAllowed(key)
        /\ \E disp \in { Dispatch(key, paused, delay) } :
            /\ ~disp.brk
            /\ disp.paused
            /\ paused' = disp.paused
            /\ delay' = disp.delay
        /\ steps' = <<PollStep(key)>>
    /\ UNCHANGED <<pc, cfg, WORD_LIST, rows, cols, drops, clusters, found, log, beeps,
                   retired>>

\* the drops list after the spawn of line 144
SpawnChoices ==
    {drops} \cup
    IF Len(drops) < MaxDrops
    THEN { Append(drops, d) : d \in RandomDrops }
    ELSE {}

\* an iteration that finds the pause flag clear after the dispatch: lines 142-166
Tick ==
    /\ pc = "loop"
    /\ \E key \in Inputs :
        /\ KeyAllowed(key)
        /\ \E disp \in { Dispatch(key, paused, delay) } :
            /\ ~disp.brk
            /\ ~disp.paused
            /\ paused' = disp.paused
            /\ delay' = disp.delay
        /\ \E ds \in SpawnChoices :
           \E morphs \in [1..Len(ds) -> MorphDraws] :
           \E dp \in { DropPhase(ds, 1, morphs,
                                  [new_drops |-> <<>>, retired |-> <<>>, found |-> found,
                                   log |-> log, clusters |-> clusters, beeps |-> beeps]) } :
           \E cp \in { ClusterPhase(dp.clusters) } :
             /\ drops' = dp.new_drops
             /\ retired' = dp.retired
             /\ found' = dp.found
             /\ log' = dp.log
             /\ beeps' = dp.beeps
             /\ IF cp.raised
                THEN /\ clusters' = cp.objects
                     /\ pc' = "crashed"
                     /\ steps' = <<PollStep(key), "erase", "spawn", "drops", "clusters">>
                ELSE /\ clusters' = cp.kept
                     /\ pc' = IF Len(dp.found) >= cfg.target THEN "end" ELSE "loop"
                     /\ steps' = <<PollStep(key), "erase", "spawn", "drops", "clusters",
                                   "hud", "refresh", "sleep", "check">>
                                  \o (IF Len(dp.found) >= cfg.target
                                      THEN <<"endscreen">> ELSE <<>>)
    /\ UNCHANGED <<cfg, WORD_LIST, rows, cols>>

\* the key press that ends the blocking getch of the end screen
FinalKey ==
    /\ pc = "end"
    /\ pc' = "exit"
    /\ steps' = <<"finalkey">>
    /\ UNCHANGED <<cfg, WORD_LIST, rows, cols, paused, delay, drops, clusters,
                   found, log, beeps, retired>>

Next == Quit \/ PausedIteration \/ Tick \/ FinalKey

Spec == Init /\ [][Next]_vars

InitShipped == InitWith({Shipped})
SpecShipped == InitShipped /\ [][Next]_vars

\* The dispatch of lines 131-140 on its own: every polled key applied to the
\* pause flag and the delay, the rest of the iteration left out.
ApplyDispatch ==
    /\ pc = "loop"
    /\ \E key \in Inputs :
        /\ key = "-" => FLess(delay, Centi(MaxSlowCenti))
        /\ \E disp \in { Dispatch(key, paused, delay) } :
            /\ paused' = disp.paused
            /\ delay' = disp.delay
            /\ pc' = IF disp.brk THEN "end" ELSE "loop"
        /\ steps' = <<"poll", key>>
    /\ UNCHANGED <<cfg, WORD_LIST, rows, cols, drops, clusters, found, log, beeps,
                   retired>>

SpecDispatch == Init /\ [][ApplyDispatch]_vars

-----------------------------------------------------------------------------
(* Properties *)

Range(seq) == { seq[i] : i \in 1..Len(seq) }
NoDuplicates(seq) == \A i, j \in 1..Len(seq) : seq[i] = seq[j] => i = j
\* the latest iteration ran the update phase
RanUpdate(st) == Len(st) >= 4 /\ st[4] = "drops"
\* the word a cluster's letters spell
Spelled(c) == [i \in 1..Len(c.letters) |-> c.letters[i].ch]
FirstIndex(list, w) == CHOOSE i \in 1..Len(list) :
                          list[i] = w /\ \A j \in 1..(i - 1) : list[j] # w

\* C1: after every call of Drop.update, of a drop that stays and of a drop that
\* retires, the trail has at most as many entries as the gradient has colours (5).
C1_TrailBounded ==
    \A d \in Range(drops) \cup Range(retired) : Len(d.trail) <= Len(d.colors)

\* a drop updated at least six times, so that the prune dropped an entry
C1_Witness ==
    \E d \in Range(drops) : d.y >= 6 * d.speed /\ Len(d.trail) = Len(d.colors)

\* C2: the clusters a tick spawns (age 1 of lifespan 40 after their first update)
\* are in the active set after that tick, and the session runs on.
C2_ClusterLivesLifespan ==
    [][(pc = "loop" /\ RanUpdate(steps'))
        => (pc' # "crashed" /\ Len(clusters') >= Len(found') - Len(found))]_vars

\* C3 as stated: a tick claims at most one word per drop it retires.
C3_OnePerRetiringDrop ==
    [][(pc = "loop" /\ RanUpdate(steps'))
        => Len(found') - Len(found) <= Len(retired')]_vars

\* C3 as amended: a tick appends to the found set every dictionary word that was
\* not yet found and occurs in the probe string of a drop it retires, each once,
\* and for one retiring drop in dictionary order.
C3_AllMatchesClaimed ==
    [][(pc = "loop" /\ RanUpdate(steps')) =>
        /\ Len(found') >= Len(found)
        /\ SubSeq(found', 1, Len(found)) = found
        /\ LET new == SubSeq(found', Len(found) + 1, Len(found'))
           IN  /\ Range(new) = { w \in Range(WORD_LIST) :
                                   /\ ~InList(w, found)
                                   /\ \E d \in Range(retired') : Contains(w, Probe(d)) }
               /\ NoDuplicates(new)
               /\ Len(retired') = 1 =>
                    \A a, b \in 1..Len(new) :
                        a < b => FirstIndex(WORD_LIST, new[a]) < FirstIndex(WORD_LIST, new[b])
      ]_vars

\* one retiring drop whose probe string held two unclaimed words, both claimed
C3_Witness ==
    /\ Len(retired) = 1
    /\ Contains(W_ab, Probe(retired[1]))
    /\ found = <<W_a, W_ab>>

C5_TargetEndsSession ==
    Len(found) >= cfg.target => pc \in {"end", "exit"}

\* C6: an iteration that reaches the cluster update goes on to the HUD, the
\* pacing delay and the termination check.
C6_ClusterDrawNeverAborts ==
    (Len(steps) >= 5 /\ steps[5] = "clusters") => (Len(steps) >= 9 /\ steps[9] = "check")

\* what one Drop.update makes of the drop old, whatever the morph draws
AdvancedByOneTick(old, d) ==
    /\ d.x = old.x /\ d.layer = old.layer /\ d.speed = old.speed /\ d.colors = old.colors
    /\ d.y = old.y + old.speed
    /\ Len(d.trail) = IF Len(old.trail) < 5 THEN Len(old.trail) + 1 ELSE 5
    /\ d.trail[1] = [row |-> IntOf(d.y), ch |-> old.char, age |-> 1]
    /\ \A j \in 2..Len(d.trail) :
         d.trail[j] = [old.trail[j - 1] EXCEPT !.age = @ + 1]

\* C7: an iteration that is paused after the dispatch changes no drop, no cluster
\* and not the found set and runs no phase but the poll; the tick that resumes
\* advances every drop by exactly one update from its frozen value.
C7_PauseFreezes ==
    [][/\ (pc = "loop" /\ pc' = "loop" /\ paused')
            => (UNCHANGED <<drops, clusters, found, log, retired>> /\ Len(steps') = 1)
       /\ (pc = "loop" /\ paused /\ ~paused')
            => \A i \in 1..Len(drops) :
                 \E d \in Range(drops') \cup Range(retired') : AdvancedByOneTick(drops[i], d)
      ]_vars

\* paused in mid-session, a drop frozen with a trail
C7_Witness ==
    /\ pc = "loop" /\ paused /\ steps = <<"poll">>
    /\ \E d \in Range(drops) : Len(d.trail) >= 2

\* C8: an iteration that polls 'q' in the loop, paused or not, goes to the end
\* screen with no other phase and changes neither entities nor flags.
C8_QuitEndsAtOnce ==
    [][(pc = "loop" /\ Len(steps') >= 1 /\ steps'[1] = "poll q")
        => /\ pc' = "end"
           /\ steps' = <<"poll q", "endscreen">>
           /\ UNCHANGED <<drops, clusters, found, log, beeps, retired, paused, delay>>
      ]_vars

\* 'q' polled while paused
C8_Witness ==
    pc = "end" /\ paused /\ steps = <<"poll q", "endscreen">>

\* C9: the loop is left only for the end screen, by 'q' or by the found set
\* reaching the target; the end screen is left only for the exit; nothing
\* follows the exit.
C9_StateMachine ==
    [][/\ pc = "loop" => pc' \in {"loop", "end"}
       /\ (pc = "loop" /\ pc' = "end")
            => (steps'[1] = "poll q" \/ Len(found') >= cfg.target)
       /\ pc = "end" => pc' \in {"end", "exit"}
       /\ pc = "exit" => pc' = "exit"
      ]_vars

\* C10 as stated: the speed-ups from 0.05 give 0.04, 0.03, 0.02 and 0.01.
C10_DecimalChain ==
    [][FLess(delay', delay) =>
        /\ delay = D005 => delay' = D004
        /\ delay = D004 => delay' = D003
        /\ delay = D003 => delay' = D002
        /\ delay = D002 => delay' = D001
      ]_vars

\* C10 as amended: the delay is never below 0.01, and the speed-ups from 0.05
\* give 0.04, 0.03, 0.019999999999999997 (the double just below 0.02) and 0.01.
C10_SpeedUpFloor ==
    /\ [](~FLess(delay, D001))
    /\ [][FLess(delay', delay) =>
            /\ delay = D005 => delay' = D004
            /\ delay = D004 => delay' = D003
            /\ delay = D003 => delay' = D002m
            /\ delay = D002m => delay' = D001
            /\ delay = D002 => delay' = D001
         ]_vars

\* the third speed-up from 0.05 has acted
C10_Witness == delay = D002m

C13_RetiresScrolledOff ==
    /\ \A d \in Range(drops) : d.y < 10 * (rows + Len(d.colors))
    /\ \A d \in Range(retired) :
         /\ d.y >= 10 * (rows + Len(d.colors))
         /\ d.y - d.speed < 10 * (rows + Len(d.colors))
         /\ \A j \in 1..Len(d.trail) : d.trail[j].row >= rows

\* C14: every cluster, fresh or updated, has one letter per character of its
\* source word, in the word's order; the clusters of a tick are those of the
\* words the tick appended to the found list.
C14_LettersSpellWord ==
    /\ Len(clusters) <= Len(found)
    /\ \A i \in 1..Len(clusters) :
         /\ Spelled(clusters[i]) = found[Len(found) - Len(clusters) + i]
         /\ Len(clusters[i].letters) = Len(found[Len(found) - Len(clusters) + i])

\* a cluster after its first update next to a fresh cluster of a two-letter word
C14_Witness ==
    \E i, j \in 1..Len(clusters) :
        /\ clusters[i].age = 1 /\ clusters[i].letters[1].rad = 3
        /\ clusters[j].age = 0 /\ Len(clusters[j].letters) = 2

\* C15: after an update the newest trail entry has age 0 and is drawn with
\* gradient index 0, and no entry has an age of the palette depth or more.
C15_NewestHasAgeZero ==
    \A d \in Range(drops) \cup Range(retired) :
        d.trail # <<>> =>
            /\ d.trail[1].age = 0
            /\ DropColorIdx(d, d.trail[1]) = 0
            /\ \A j \in 1..Len(d.trail) : d.trail[j].age < Len(d.colors)

\* C16: the found list and the cluster list grow only in a tick that retires a
\* drop, and every word the tick adds is a contiguous part of the probe of a
\* drop the tick retired (its trail glyphs, newest first, after the update).
C16_OnlyRetiringDropsScanned ==
    [][/\ (found' # found \/ Len(clusters') > Len(clusters) \/ beeps' # beeps) =>
            /\ pc = "loop" /\ RanUpdate(steps')
            /\ retired' # <<>>
       /\ Len(found') >= Len(found)
       /\ \A k \in 1..Len(found') :
            k > Len(found) =>
                \E d \in Range(retired') : Contains(found'[k], Probe(d))
      ]_vars

\* a tick has retired a drop and claimed two words from its probe
C16_Witness ==
    /\ RanUpdate(steps) /\ Len(retired) = 1 /\ Len(found) = 2
    /\ \A k \in 1..2 : Contains(found[k], Probe(retired[1]))

\* C17: every drop, initial or spawned, carries the colour gradient of its
\* own layer.
C17_GradientOfOwnLayer ==
    \A d \in Range(drops) \cup Range(retired) : d.colors = layer_colors[d.layer + 1]

\* C18: an iteration that is paused after the dispatch runs the poll and
\* nothing else; an iteration that is not paused and does not quit runs, in
\* this order, the poll, the spawn, the drop update with detection, the
\* cluster update, the render, the pacing delay and the termination check.
C18_IterationPhases ==
    [][pc = "loop" =>
        \/ /\ paused' /\ steps' = <<"poll">>
           /\ UNCHANGED <<drops, clusters, found, retired>>
        \/ steps' = <<"poll q", "endscreen">>
        \/ /\ ~paused'
           /\ Len(steps') >= 9
           /\ SubSeq(steps', 1, 9) = <<"poll", "erase", "spawn", "drops", "clusters",
                                       "hud", "refresh", "sleep", "check">>
      ]_vars

\* C19: with the shipped constants every listed word has at least 10 letters
\* and a probe has at most 5 glyphs, so the found list stays empty, no cluster
\* is spawned, nothing is logged or beeped, and the loop is left by quit only.
C19_ShippedNeverFinds ==
    /\ cfg = Shipped
    /\ \A i \in 1..Len(WORD_LIST) : Len(WORD_LIST[i]) >= MIN_LEN
    /\ \A d \in Range(drops) \cup Range(retired) : Len(Probe(d)) <= 5
    /\ found = <<>> /\ clusters = <<>> /\ log = <<>> /\ beeps = 0
    /\ pc # "crashed"
    /\ pc = "end" => steps = <<"poll q", "endscreen">>

\* a drop has retired with a full probe while a word is listed
C19_Witness ==
    /\ cfg = Shipped /\ WORD_LIST # <<>>
    /\ \E d \in Range(retired) : Len(Probe(d)) = 5

\* ceil((2 * rows + palette depth) / speed), the speed in tenths of a row
TickBound(d) == (10 * (2 * rows + Len(d.colors)) + d.speed - 1) \div d.speed

\* C20: every unpaused tick updates every drop once; a drop still in the set
\* has had fewer than ceil((2*rows + palette depth) / speed) updates and a
\* retiring drop at most that many, so no drop outlives that many unpaused
\* ticks after its creation.
C20_RetiredWithinBound ==
    [][(pc = "loop" /\ RanUpdate(steps')) =>
        /\ \A i \in 1..Len(drops) :
             \E d \in Range(drops') \cup Range(retired') :
                /\ d.x = drops[i].x /\ d.layer = drops[i].layer
                /\ d.updates = drops[i].updates + 1
        /\ \A d \in Range(drops') : d.updates < TickBound(d)
        /\ \A d \in Range(retired') : d.updates <= TickBound(d)
      ]_vars

\* a drop of the slowest layer retires at its 18th update, the bound for rows = 1
C20_Witness ==
    \E d \in Range(retired) : d.speed = 4 /\ d.updates = TickBound(d) /\ d.updates = 18

\* the delays after 0, 1, .. 10 slow-downs from 0.05, as the doubles the
\* additions give: 0.05, 0.060000000000000005, 0.07, 0.08, 0.09,
\* 0.09999999999999999, 0.10999999999999999, 0.11999999999999998,
\* 0.12999999999999998, 0.13999999999999999, 0.15
SlowChain == <<
    [hi |-> 107374182, lo |-> 107374184],
    [hi |-> 128849018, lo |-> 236223204],
    [hi |-> 150323855, lo |-> 96636768],
    [hi |-> 171798691, lo |-> 225485784],
    [hi |-> 193273528, lo |-> 85899344],
    [hi |-> 214748364, lo |-> 214748360],
    [hi |-> 236223201, lo |-> 75161920],
    [hi |-> 257698037, lo |-> 204010936],
    [hi |-> 279172874, lo |-> 64424496],
    [hi |-> 300647710, lo |-> 193273520],
    [hi |-> 322122547, lo |-> 53687088] >>

\* the doubles of the literals 0.05, 0.06, .. 0.15
DecimalChain == <<
    [hi |-> 107374182, lo |-> 107374184],
    [hi |-> 128849018, lo |-> 236223200],
    [hi |-> 150323855, lo |-> 96636768],
    [hi |-> 171798691, lo |-> 225485784],
    [hi |-> 193273528, lo |-> 85899344],
    [hi |-> 214748364, lo |-> 214748368],
    [hi |-> 236223201, lo |-> 75161928],
    [hi |-> 257698037, lo |-> 204010944],
    [hi |-> 279172874, lo |-> 64424512],
    [hi |-> 300647710, lo |-> 193273536],
    [hi |-> 322122547, lo |-> 53687088] >>

\* the exact value of d + 0.01 lies within one unit of 2^-55 of e
WithinRounding(d, e) ==
    LET x == ExactAdd(d, D001)
    IN  \/ x = e
        \/ (FLess(x, e) /\ ~FLess(ExactAdd(x, [hi |-> 0, lo |-> 16]), e))
        \/ (FLess(e, x) /\ ~FLess(ExactAdd(e, [hi |-> 0, lo |-> 16]), x))

\* C11 as stated: n slow-downs from 0.05 give the decimal 0.05 + n * 0.01.
C11_DecimalSum ==
    [][FLess(delay, delay') =>
        \A n \in 1..10 : delay = DecimalChain[n] => delay' = DecimalChain[n + 1]]_vars

\* C11 as amended: a slow-down raises the delay by 0.01 up to the rounding of
\* the double addition, whatever the pause flag; from 0.05 the first gives
\* 0.060000000000000005, the fifth 0.09999999999999999 and the tenth 0.15.
C11_SlowDownAdds ==
    [][FLess(delay, delay') =>
        /\ WithinRounding(delay, delay')
        /\ \A n \in 1..10 : delay = SlowChain[n] => delay' = SlowChain[n + 1]]_vars

\* the tenth slow-down from 0.05 has acted, in a paused session
C11_Witness == delay = SlowChain[11] /\ paused /\ steps = <<"poll", "-">>

====
